---- MODULE Spec2Model ----
(***************************************************************************)
(* Vendor Performance Analytics (vendor_analytics_app.py).                 *)
(*                                                                         *)
(* The computation core of the dashboard as state machines:                *)
(*   SpecKpi     calculate_kpis and get_leaderboard on bounded tables      *)
(*   SpecFilter  filter_data and the inline filtering sequence of main     *)
(*   SpecRemap   get_column_mapping and remap_df                           *)
(*   Spec        a dashboard session: main re-run on every widget change   *)
(*                                                                         *)
(* pandas float columns are modelled as exact rationals extended with the  *)
(* IEEE values NaN, +inf and -inf; binary rounding is not modelled.        *)
(***************************************************************************)
EXTENDS Integers, Sequences, FiniteSets, TLC

VARIABLES
    pc,           \* position of the run
    rng,          \* numpy's global RandomState (survives re-runs)
    df,           \* the observation table
    df0,          \* the table generated by the first run (history)
    columns,      \* df.columns
    date_range,   \* sidebar selection / filter argument: None or <<start, end>>
    category,     \* sidebar selection / filter argument
    region,       \* sidebar selection / filter argument
    filtered_df,  \* result of the filter: [raised, rows]
    kpi_df,       \* result of calculate_kpis
    kpi_vals,     \* the five summary KPIs of main
    top,          \* get_leaderboard()[0]
    bottom,       \* get_leaderboard()[1]
    board_n,      \* get_leaderboard's n
    mapping,      \* get_column_mapping's dict: field -> source column or None
    df2           \* result of remap_df: [raised, cols]

vars == <<pc, rng, df, df0, columns, date_range, category, region,
          filtered_df, kpi_df, kpi_vals, top, bottom, board_n, mapping, df2>>

None == "None"

(***************************************************************************)
(* float64 values: exact rationals n/d in lowest terms (d > 0), NaN, +-inf *)
(***************************************************************************)
Abs(x) == IF x < 0 THEN -x ELSE x

RECURSIVE GCD(_, _)
GCD(a, b) == IF b = 0 THEN a ELSE GCD(b, a % b)

Rat(n, d) ==
    LET g == GCD(Abs(n), d)
    IN  [k |-> "num", n |-> n \div g, d |-> d \div g]

NaN == [k |-> "nan", n |-> 0, d |-> 1]
Inf(sign) == [k |-> "inf", n |-> sign, d |-> 1]
Zero == Rat(0, 1)
One == Rat(1, 1)

IsNaN(a) == a.k = "nan"
IsNum(a) == a.k = "num"
Sign(a) == IF a.n > 0 THEN 1 ELSE IF a.n < 0 THEN -1 ELSE 0

FNeg(a) == IF IsNaN(a) THEN NaN ELSE [a EXCEPT !.n = -a.n]

\* a + b
FAdd(a, b) ==
    IF IsNaN(a) \/ IsNaN(b) THEN NaN
    ELSE IF a.k = "inf" /\ b.k = "inf" THEN (IF a.n = b.n THEN a ELSE NaN)
    ELSE IF a.k = "inf" THEN a
    ELSE IF b.k = "inf" THEN b
    ELSE LET g == GCD(a.d, b.d)
             l == (a.d \div g) * b.d
         IN  Rat(a.n * (l \div a.d) + b.n * (l \div b.d), l)

FSub(a, b) == FAdd(a, FNeg(b))

\* a * b
FMul(a, b) ==
    IF IsNaN(a) \/ IsNaN(b) THEN NaN
    ELSE IF a.k = "inf" \/ b.k = "inf"
         THEN (IF Sign(a) * Sign(b) = 0 THEN NaN ELSE Inf(Sign(a) * Sign(b)))
    ELSE LET g1 == GCD(Abs(a.n), b.d)
             g2 == GCD(Abs(b.n), a.d)
         IN  Rat((a.n \div g1) * (b.n \div g2), (a.d \div g2) * (b.d \div g1))

\* a / b (the zero of a sum of non-negative numbers is +0)
FDiv(a, b) ==
    IF IsNaN(a) \/ IsNaN(b) THEN NaN
    ELSE IF b.k = "inf" THEN (IF a.k = "inf" THEN NaN ELSE Zero)
    ELSE IF b.n = 0
         THEN (IF Sign(a) = 0 THEN NaN ELSE Inf(Sign(a)))
    ELSE IF a.k = "inf" THEN Inf(Sign(a) * Sign(b))
    ELSE FMul(a, IF b.n > 0 THEN [k |-> "num", n |-> b.d, d |-> b.n]
                            ELSE [k |-> "num", n |-> -b.d, d |-> -b.n])

\* p/q < r/s for naturals p, r and positive q, s, without forming p*s
RECURSIVE FracLt(_, _, _, _)
FracLt(p, q, r, s) ==
    LET ip == p \div q
        ir == r \div s
    IN  IF ip # ir THEN ip < ir
        ELSE IF r % s = 0 THEN FALSE
        ELSE IF p % q = 0 THEN TRUE
        ELSE FracLt(s, r % s, q, p % q)

\* a < b on values that are not NaN
FLt(a, b) ==
    IF a.k = "inf" THEN a.n < 0 /\ ~(b.k = "inf" /\ b.n < 0)
    ELSE IF b.k = "inf" THEN b.n > 0
    ELSE IF a.n < 0 /\ b.n >= 0 THEN TRUE
    ELSE IF a.n >= 0 /\ b.n < 0 THEN FALSE
    ELSE IF a.n >= 0 THEN FracLt(a.n, a.d, b.n, b.d)
    ELSE FracLt(-b.n, b.d, -a.n, a.d)

FLe(a, b) == ~FLt(b, a)

(***************************************************************************)
(* Series helpers                                                          *)
(***************************************************************************)
Range(s) == {s[i] : i \in 1..Len(s)}

RECURSIVE SortedSeq(_)
\* the elements of a finite set of integers in ascending order
SortedSeq(S) ==
    IF S = {} THEN <<>>
    ELSE LET m == CHOOSE x \in S : \A y \in S : x <= y
         IN  <<m>> \o SortedSeq(S \ {m})

RECURSIVE SumInt(_, _)
\* Series.sum() of an integer column
SumInt(rows, f) ==
    IF rows = <<>> THEN 0 ELSE rows[1][f] + SumInt(Tail(rows), f)

RECURSIVE SumVal(_, _)
\* Series.sum() of a float column
SumVal(rows, f) ==
    IF rows = <<>> THEN Zero ELSE FAdd(rows[1][f], SumVal(Tail(rows), f))

\* Series.mean() of a float column: NaN values are skipped, and the mean of
\* no value is NaN
MeanVal(rows, f) ==
    LET valid == SelectSeq(rows, LAMBDA r : ~IsNaN(r[f]))
    IN  IF valid = <<>> THEN NaN
        ELSE FDiv(SumVal(valid, f), Rat(Len(valid), 1))

RECURSIVE MaxVal(_, _)
\* Series.max() of a float column: NaN values are skipped, NaN if none is left
MaxVal(rows, f) ==
    IF rows = <<>> THEN NaN
    ELSE LET rest == MaxVal(Tail(rows), f)
             x == rows[1][f]
         IN  IF IsNaN(x) THEN rest
             ELSE IF IsNaN(rest) THEN x
             ELSE IF FLt(x, rest) THEN rest ELSE x

(***************************************************************************)
(* calculate_kpis                                                          *)
(***************************************************************************)
\* the rows of one group of df.groupby('Vendor'), in table order
GroupRows(rows, v) == SelectSeq(rows, LAMBDA r : r.Vendor = v)

\* the group keys: groupby sorts them
GroupKeys(rows) == SortedSeq({rows[i].Vendor : i \in 1..Len(rows)})

\* 'sum'
AggSum(g, f) == SumInt(g, f)

\* 'mean' of the 0/1 column Compliant
AggMeanInt(g, f) == FDiv(Rat(SumInt(g, f), 1), Rat(Len(g), 1))

\* a faulty aggregation: the group's first value in place of its mean
AggMean_first(g, f) == g[1][f]

\* 'mean' of the float column LeadTime
AggMean(g, f) == MeanVal(g, f)

\* 'first'
AggFirst(g, f) == g[1][f]

\* one row of df.groupby('Vendor').agg({...}).reset_index()
AggRow(g) ==
    [Vendor           |-> g[1].Vendor,
     OnTimeDeliveries |-> AggSum(g, "OnTimeDeliveries"),
     TotalDeliveries  |-> AggSum(g, "TotalDeliveries"),
     Defects          |-> AggSum(g, "Defects"),
     TotalUnits       |-> AggSum(g, "TotalUnits"),
     Spend            |-> AggSum(g, "Spend"),
     Compliant        |-> AggMeanInt(g, "Compliant"),
     LeadTime         |-> AggMean(g, "LeadTime"),
     Category         |-> AggFirst(g, "Category"),
     Region           |-> AggFirst(g, "Region")]

Aggregate(rows) ==
    LET keys == GroupKeys(rows)
    IN  [i \in 1..Len(keys) |-> AggRow(GroupRows(rows, keys[i]))]

OnTimeDeliveryRate(a) ==
    FDiv(Rat(a.OnTimeDeliveries, 1), Rat(a.TotalDeliveries, 1))

QualityScore(a) == FSub(One, FDiv(Rat(a.Defects, 1), Rat(a.TotalUnits, 1)))

\* a faulty score: the lead-time term is not inverted
OverallScore_raw_lead(otr, q, c, alt, mx) ==
    FAdd(FAdd(FAdd(FMul(otr, Rat(3, 10)),
                   FMul(q, Rat(3, 10))),
              FMul(c, Rat(2, 10))),
         FMul(FDiv(alt, mx), Rat(2, 10)))

\* the weighted sum; mx is kpi_df['AvgLeadTime'].max()
OverallScore(otr, q, c, alt, mx) ==
    FAdd(FAdd(FAdd(FMul(otr, Rat(3, 10)),
                   FMul(q, Rat(3, 10))),
              FMul(c, Rat(2, 10))),
         FMul(FSub(One, FDiv(alt, mx)), Rat(2, 10)))

ScoreRow(a, mx) ==
    LET otr == OnTimeDeliveryRate(a)
        q == QualityScore(a)
    IN  [Vendor             |-> a.Vendor,
         OnTimeDeliveries   |-> a.OnTimeDeliveries,
         TotalDeliveries    |-> a.TotalDeliveries,
         Defects            |-> a.Defects,
         TotalUnits         |-> a.TotalUnits,
         Spend              |-> a.Spend,
         Compliant          |-> a.Compliant,
         LeadTime           |-> a.LeadTime,
         Category           |-> a.Category,
         Region             |-> a.Region,
         OnTimeDeliveryRate |-> otr,
         QualityScore       |-> q,
         ComplianceRate     |-> a.Compliant,
         AvgLeadTime        |-> a.LeadTime,
         OverallScore       |-> OverallScore(otr, q, a.Compliant, a.LeadTime, mx)]

calculate_kpis(rows) ==
    LET agg == Aggregate(rows)
        mx == MaxVal(agg, "LeadTime")
    IN  [i \in 1..Len(agg) |-> ScoreRow(agg[i], mx)]

(***************************************************************************)
(* get_leaderboard: DataFrame.nlargest / nsmallest(n, column), keep='first' *)
(***************************************************************************)
RECURSIVE InsertSorted(_, _)
\* x placed behind every element whose key is not greater: a stable insertion
InsertSorted(x, s) ==
    IF s = <<>> THEN <<x>>
    ELSE IF FLt(x.key, s[1].key) THEN <<x>> \o s
    ELSE <<s[1]>> \o InsertSorted(x, Tail(s))

RECURSIVE StableSort(_)
\* argsort(kind='mergesort') of keyed rows, none of them NaN
StableSort(s) ==
    IF s = <<>> THEN <<>>
    ELSE InsertSorted(s[Len(s)], StableSort(SubSeq(s, 1, Len(s) - 1)))

\* the column as the array the selection works on: negated for nlargest
SelectArr(rows, f, largest) ==
    [i \in 1..Len(rows) |->
        [key |-> IF largest THEN FNeg(rows[i][f]) ELSE rows[i][f],
         row |-> rows[i]]]

Head_n(s, n) == SubSeq(s, 1, IF n < Len(s) THEN n ELSE Len(s))

Rows(s) == [i \in 1..Len(s) |-> s[i].row]

\* SelectNSeries.compute
SelectN(rows, n, f, largest) ==
    LET dropped == SelectSeq(rows, LAMBDA r : ~IsNaN(r[f]))
        nan_rows == SelectSeq(rows, LAMBDA r : IsNaN(r[f]))
        arr == SelectArr(dropped, f, largest)
    IN  IF n <= 0 THEN <<>>
        ELSE IF n >= Len(rows)
             \* sort_values(ascending=...).head(n): NaN rows last
             THEN Head_n(Rows(StableSort(arr)) \o nan_rows, n)
        ELSE IF arr = <<>> THEN Head_n(nan_rows, n)
        ELSE LET m == IF n < Len(arr) THEN n ELSE Len(arr)
                 kth_val == StableSort(arr)[m].key
                 ns == SelectSeq(arr, LAMBDA x : FLe(x.key, kth_val))
                 inds == Head_n(StableSort(ns), m)
             IN  Head_n(Rows(inds) \o nan_rows, n)

nlargest(rows, n, f) == SelectN(rows, n, f, TRUE)

nsmallest(rows, n, f) == SelectN(rows, n, f, FALSE)

get_leaderboard(kpi, n) ==
    [top |-> nlargest(kpi, n, "OverallScore"),
     bottom |-> nsmallest(kpi, n, "OverallScore")]

(***************************************************************************)
(* Tables                                                                  *)
(***************************************************************************)
AllColumns == {"Vendor", "Category", "Region", "Date", "OnTimeDeliveries",
               "TotalDeliveries", "Defects", "TotalUnits", "Spend",
               "Compliant", "LeadTime"}

Obs(v, cat, reg, date, on, tot, def, units, spend, comp, lead) ==
    [Vendor |-> v, Category |-> cat, Region |-> reg, Date |-> date,
     OnTimeDeliveries |-> on, TotalDeliveries |-> tot, Defects |-> def,
     TotalUnits |-> units, Spend |-> spend, Compliant |-> comp,
     LeadTime |-> lead]

\* the result of a call: the rows it returns, or the exception it raises
Ok(rows) == [raised |-> None, rows |-> rows]
Raised(e) == [raised |-> e, rows |-> <<>>]

\* a date_range argument: None, or the pair the date widget returns
NoDateRange == [is_none |-> TRUE, v |-> <<>>]
DateRange(s, e) == [is_none |-> FALSE, v |-> <<s, e>>]

\* all tables of at most k rows drawn from a pool
TablesOf(pool, k) == UNION {[1..m -> pool] : m \in 0..k}

NoKpiVals == [OnTimeDeliveryRate |-> Zero, QualityScore |-> Zero,
              TotalSpend |-> Zero, ComplianceRate |-> Zero,
              AvgLeadTime |-> Zero]

(***************************************************************************)
(* SpecKpi: calculate_kpis and get_leaderboard applied to bounded tables   *)
(***************************************************************************)
MaxRows == 3
MaxN == 2

\* the three-vendor scenario of the specification's section 8
ScenarioRows ==
    {Obs(1, "Services", "North", 0, 10, 10, 0, 100, 1000, 1, Rat(2, 1)),
     Obs(2, "Services", "North", 0, 5, 10, 5, 100, 2000, 0, Rat(5, 1)),
     Obs(3, "Services", "North", 0, 8, 10, 2, 100, 1500, 1, Rat(10, 1))}

\* small observations: ordinary ones, zero deliveries, zero units and zero
\* lead time, and one that breaks on-time <= total and defects <= units
KpiRows ==
    UNION {{Obs(v, "Services", "North", 0, 1, 2, 0, 2, 1, 1, Rat(1, 1)),
            Obs(v, "Packaging", "North", 0, 2, 2, 1, 2, 2, 0, Rat(2, 1)),
            Obs(v, "Services", "North", 0, 0, 0, 0, 2, 1, 1, Rat(1, 1)),
            Obs(v, "Services", "North", 0, 1, 1, 0, 0, 1, 1, Rat(0, 1)),
            Obs(v, "Packaging", "North", 0, 1, 0, 1, 0, 1, 0, Rat(2, 1))}
           : v \in {1, 2}}
    \cup ScenarioRows

InitKpi ==
    /\ pc = "start"
    /\ df \in TablesOf(KpiRows, MaxRows)
    /\ df0 = df
    /\ rng = [key |-> 0, ctr |-> 0]
    /\ columns = AllColumns
    /\ date_range = NoDateRange
    /\ category = "All"
    /\ region = "All"
    /\ filtered_df = Ok(<<>>)
    /\ kpi_df = <<>>
    /\ kpi_vals = NoKpiVals
    /\ top = <<>>
    /\ bottom = <<>>
    /\ board_n = 0
    /\ mapping = <<>>
    /\ df2 = <<>>

CalculateKpis ==
    /\ pc = "start"
    /\ kpi_df' = calculate_kpis(df)
    /\ pc' = "scored"
    /\ UNCHANGED <<rng, df, df0, columns, date_range, category, region,
                   filtered_df, kpi_vals, top, bottom, board_n, mapping, df2>>

GetLeaderboard ==
    /\ pc = "scored"
    /\ \E k \in 1..MaxN :
          /\ board_n' = k
          /\ top' = get_leaderboard(kpi_df, k).top
          /\ bottom' = get_leaderboard(kpi_df, k).bottom
    /\ pc' = "ranked"
    /\ UNCHANGED <<rng, df, df0, columns, date_range, category, region,
                   filtered_df, kpi_df, kpi_vals, mapping, df2>>

NextKpi == CalculateKpis \/ GetLeaderboard

SpecKpi == InitKpi /\ [][NextKpi]_vars

(***************************************************************************)
(* Filtering: filter_data, and the inline sequence of main                 *)
(***************************************************************************)
TicksPerDay == 2

\* pd.to_datetime of a date: the Timestamp of its midnight
to_datetime(d) == d * TicksPerDay

\* Python's truth value of date_range
Truthy(dr) == ~dr.is_none /\ Len(dr.v) > 0

\* df[mask]: the rows whose mask entry is True, in table order
BoolIndex(rows, mask) ==
    LET idx == SelectSeq([i \in 1..Len(rows) |-> i], LAMBDA i : mask[i])
    IN  [j \in 1..Len(idx) |-> rows[idx[j]]]

\* a faulty date mask: the end bound is exclusive
DateMask_exclusive_end(rows, start, end) ==
    [i \in 1..Len(rows) |-> rows[i].Date >= start /\ rows[i].Date < end]

\* (df['Date'] >= start_date) & (df['Date'] <= end_date); the column holds
\* Timestamps, which pd.to_datetime leaves as they are
DateMask(rows, start, end) ==
    [i \in 1..Len(rows) |-> rows[i].Date >= start /\ rows[i].Date <= end]

\* df[col] == value
EqMask(rows, f, value) == [i \in 1..Len(rows) |-> rows[i][f] = value]

AndMask(a, b) == [i \in 1..Len(a) |-> a[i] /\ b[i]]

filter_data(rows, cols, dr, cat, reg) ==
    IF dr.is_none THEN Raised("TypeError")
    ELSE IF "Date" \notin cols THEN Raised("KeyError")
    ELSE LET start_date == to_datetime(dr.v[1])
             end_date == to_datetime(dr.v[2])
             mask0 == DateMask(rows, start_date, end_date)
             mask1 == IF cat # "All" /\ "Category" \in cols
                      THEN AndMask(mask0, EqMask(rows, "Category", cat))
                      ELSE mask0
             mask2 == IF reg # "All" /\ "Region" \in cols
                      THEN AndMask(mask1, EqMask(rows, "Region", reg))
                      ELSE mask1
         IN  Ok(BoolIndex(rows, mask2))

\* lines 223-231 of main
main_filter(rows, cols, dr, cat, reg) ==
    LET f0 == rows
        f1 == IF Truthy(dr) /\ "Date" \in cols
              THEN BoolIndex(f0, DateMask(f0, to_datetime(dr.v[1]),
                                              to_datetime(dr.v[2])))
              ELSE f0
        f2 == IF cat # "All" /\ "Category" \in cols
              THEN BoolIndex(f1, EqMask(f1, "Category", cat))
              ELSE f1
        f3 == IF reg # "All" /\ "Region" \in cols
              THEN BoolIndex(f2, EqMask(f2, "Region", reg))
              ELSE f2
    IN  Ok(f3)

(***************************************************************************)
(* SpecFilter: both filters applied to bounded tables and selections       *)
(***************************************************************************)
NumDates == 2
MaxFilterRows == 2

Dates == 1..NumDates

\* per date its midnight and a later time of that day
Timestamps == {to_datetime(d) + t : d \in Dates, t \in {0, 1}}

FilterRows ==
    {Obs(1, c[1], c[2], ts, 1, 2, 0, 2, 1, 1, One) :
        ts \in Timestamps,
        c \in {<<"Packaging", "North">>, <<"Services", "South">>}}

ColumnSets == {AllColumns, AllColumns \ {"Date"}, AllColumns \ {"Category"},
               AllColumns \ {"Region"}}

DateRanges == {NoDateRange} \cup {DateRange(s, e) : s \in Dates, e \in Dates}

InitFilter ==
    /\ pc = "start"
    /\ df \in TablesOf(FilterRows, MaxFilterRows)
    /\ df0 = df
    /\ rng = [key |-> 0, ctr |-> 0]
    /\ columns \in ColumnSets
    /\ date_range = NoDateRange
    /\ category = "All"
    /\ region = "All"
    /\ filtered_df = Ok(<<>>)
    /\ kpi_df = <<>>
    /\ kpi_vals = NoKpiVals
    /\ top = <<>>
    /\ bottom = <<>>
    /\ board_n = 0
    /\ mapping = <<>>
    /\ df2 = <<>>

FilterData ==
    /\ pc = "start"
    /\ \E dr \in DateRanges, cat \in {"All", "Packaging", "Services"},
          reg \in {"All", "North", "South"} :
          /\ date_range' = dr
          /\ category' = cat
          /\ region' = reg
          /\ filtered_df' = filter_data(df, columns, dr, cat, reg)
    /\ pc' = "filter_data"
    /\ UNCHANGED <<rng, df, df0, columns, kpi_df, kpi_vals, top, bottom,
                   board_n, mapping, df2>>

MainFilter ==
    /\ pc = "start"
    /\ \E dr \in DateRanges, cat \in {"All", "Packaging", "Services"},
          reg \in {"All", "North", "South"} :
          /\ date_range' = dr
          /\ category' = cat
          /\ region' = reg
          /\ filtered_df' = main_filter(df, columns, dr, cat, reg)
    /\ pc' = "main_filter"
    /\ UNCHANGED <<rng, df, df0, columns, kpi_df, kpi_vals, top, bottom,
                   board_n, mapping, df2>>

NextFilter == FilterData \/ MainFilter

SpecFilter == InitFilter /\ [][NextFilter]_vars

(***************************************************************************)
(* Column mapping: get_column_mapping and remap_df                         *)
(***************************************************************************)
REQUIRED_FIELDS ==
    <<"Vendor", "OnTimeDeliveries", "TotalDeliveries", "Defects",
      "TotalUnits", "Spend", "Compliant", "LeadTime", "Category", "Region",
      "Date">>

NumMapFields == 3

\* the fields the model maps: the first NumMapFields of REQUIRED_FIELDS
MapFields == SubSeq(REQUIRED_FIELDS, 1, NumMapFields)

\* the columns of the uploaded table, in order
SrcColumns == <<"Vendor", "supplier", "late">>

\* the options of one selectbox
Options(cols) == <<"(None)">> \o cols

\* the dict built by get_column_mapping from the selected options, as the
\* sequence of its items in insertion order
get_column_mapping(cols, sel) ==
    [i \in 1..Len(MapFields) |->
        [field |-> MapFields[i],
         col |-> IF sel[i] # "(None)" THEN sel[i] ELSE None]]

\* {v: k for k, v in mapping.items() if v is not None}: the last field bound
\* to a source column wins
ColMap(m, v) ==
    LET last == CHOOSE i \in 1..Len(m) :
                    /\ m[i].col = v
                    /\ \A j \in 1..Len(m) : m[j].col = v => j <= i
    IN  m[last].field

\* df[col] as the sequence of its values
Column(rows, c) == [i \in 1..Len(rows) |-> rows[i][c]]

remap_df(rows, cols, m) ==
    LET selected == SelectSeq([i \in 1..Len(m) |-> m[i].col],
                              LAMBDA v : v # None)
    IN  IF \E i \in 1..Len(selected) : selected[i] \notin Range(cols)
        THEN [raised |-> "KeyError", cols |-> <<>>]
        ELSE [raised |-> None,
              cols |-> [i \in 1..Len(selected) |->
                          [name |-> ColMap(m, selected[i]),
                           values |-> Column(rows, selected[i])]]]

(***************************************************************************)
(* SpecRemap: a mapping chosen in the sidebar, then applied                *)
(***************************************************************************)
MaxRemapRows == 1

RemapRows == [Range(SrcColumns) -> {0, 1}]

InitRemap ==
    /\ pc = "start"
    /\ df \in TablesOf(RemapRows, MaxRemapRows)
    /\ df0 = df
    /\ rng = [key |-> 0, ctr |-> 0]
    /\ columns = SrcColumns
    /\ date_range = NoDateRange
    /\ category = "All"
    /\ region = "All"
    /\ filtered_df = Ok(<<>>)
    /\ kpi_df = <<>>
    /\ kpi_vals = NoKpiVals
    /\ top = <<>>
    /\ bottom = <<>>
    /\ board_n = 0
    /\ mapping = <<>>
    /\ df2 = [raised |-> None, cols |-> <<>>]

GetColumnMapping ==
    /\ pc = "start"
    /\ \E sel \in [1..Len(MapFields) -> Range(Options(columns))] :
          mapping' = get_column_mapping(columns, sel)
    /\ pc' = "mapped"
    /\ UNCHANGED <<rng, df, df0, columns, date_range, category, region,
                   filtered_df, kpi_df, kpi_vals, top, bottom, board_n, df2>>

RemapDf ==
    /\ pc = "mapped"
    /\ df2' = remap_df(df, columns, mapping)
    /\ pc' = "remapped"
    /\ UNCHANGED <<rng, df, df0, columns, date_range, category, region,
                   filtered_df, kpi_df, kpi_vals, top, bottom, board_n,
                   mapping>>

NextRemap == GetColumnMapping \/ RemapDf

SpecRemap == InitRemap /\ [][NextRemap]_vars

(***************************************************************************)
(* generate_sample_data: numpy's global generator is a variable; a small   *)
(* counter-based stream stands for the Mersenne Twister                    *)
(***************************************************************************)
Seed == 42
SampleVendors == 2
SampleMonths == 3
DaysPerMonth == 3

Categories == <<"Raw Material", "Packaging", "Services">>
Regions == <<"North", "South", "East", "West">>

\* a faulty seeding: the call is missing, the generator keeps its state
np_random_seed_skipped(state, seed) == state

\* np.random.seed(seed): the state depends on the seed alone
np_random_seed(state, seed) == [key |-> seed, ctr |-> 0]

\* the k-th next draw of a generator in the given state: a counter-based
\* stream, a function of the key and the position alone
Stream(state, k) ==
    LET c == state.ctr + k
    IN  ((state.key + c) * (state.key + c) * 17 + c * 7919 + state.key) % 65537

\* the generator after k draws
Advance(state, k) == [state EXCEPT !.ctr = @ + k]

\* np.random.choice(options): one draw
Choice(options, x) == options[(x % Len(options)) + 1]

\* np.random.randint(lo, hi): lo <= value < hi
Randint(lo, hi, x) == lo + (x % (hi - lo))

\* np.random.choice([1, 0], p=[0.9, 0.1])
ChoiceCompliant(x) == IF x % 10 < 9 THEN 1 ELSE 0

\* np.random.uniform(2, 10): 2 <= value < 10, in tenths
Uniform(lo, hi, x) == Rat(lo * 10 + (x % ((hi - lo) * 10)), 10)

\* the first day of month m of pd.date_range(..., freq='MS'), as a day number
MonthStart(m) == (m - 1) * DaysPerMonth + 1

\* the table and the generator's state after the call
generate_sample_data(state) ==
    LET s0 == np_random_seed(state, Seed)
        V == SampleVendors
        M == SampleMonths
        categories == [i \in 1..V |-> Choice(Categories, Stream(s0, i))]
        regions == [i \in 1..V |-> Choice(Regions, Stream(s0, V + i))]
        row(i, m) ==
            LET b == 2 * V + ((i - 1) * M + (m - 1)) * 7
            IN  Obs(i, categories[i], regions[i], to_datetime(MonthStart(m)),
                    Randint(8, 15, Stream(s0, b + 1)),
                    Randint(10, 16, Stream(s0, b + 2)),
                    Randint(0, 3, Stream(s0, b + 3)),
                    Randint(100, 200, Stream(s0, b + 4)),
                    Randint(10000, 50000, Stream(s0, b + 5)),
                    ChoiceCompliant(Stream(s0, b + 6)),
                    Uniform(2, 10, Stream(s0, b + 7)))
    IN  [df |-> [j \in 1..(V * M) |->
                    row(((j - 1) \div M) + 1, ((j - 1) % M) + 1)],
         rng |-> Advance(s0, 2 * V + 7 * V * M)]

(***************************************************************************)
(* main: one run of the script                                             *)
(***************************************************************************)
LeaderboardN == 5

\* a faulty summary: the mean without the guard for the empty table
KpiMean_unguarded(kpi, f) == MeanVal(kpi, f)

\* kpi_df[f].mean() if not kpi_df.empty else 0
KpiMean(kpi, f) == IF kpi # <<>> THEN MeanVal(kpi, f) ELSE Zero

\* kpi_df['Spend'].sum() if not kpi_df.empty else 0
KpiSpend(kpi) == IF kpi # <<>> THEN Rat(SumInt(kpi, "Spend"), 1) ELSE Zero

summary_kpi_vals(kpi) ==
    [OnTimeDeliveryRate |-> KpiMean(kpi, "OnTimeDeliveryRate"),
     QualityScore |-> KpiMean(kpi, "QualityScore"),
     TotalSpend |-> KpiSpend(kpi),
     ComplianceRate |-> KpiMean(kpi, "ComplianceRate"),
     AvgLeadTime |-> KpiMean(kpi, "AvgLeadTime")]

\* the day of a Timestamp
DayOf(ts) == ts \div TicksPerDay

\* df['Date'].min(), df['Date'].max() as the date widget's bounds
MinDate(rows) == CHOOSE d \in {DayOf(rows[i].Date) : i \in 1..Len(rows)} :
                    \A i \in 1..Len(rows) : d <= DayOf(rows[i].Date)
MaxDate(rows) == CHOOSE d \in {DayOf(rows[i].Date) : i \in 1..Len(rows)} :
                    \A i \in 1..Len(rows) : d >= DayOf(rows[i].Date)

\* the values st.sidebar.date_input can return: a range within the bounds
DateOptions(rows) ==
    {DateRange(q[1], q[2]) :
        q \in {x \in (MinDate(rows)..MaxDate(rows)) \X (MinDate(rows)..MaxDate(rows)) :
                  x[1] <= x[2]}}

CategoryOptions(rows) == {"All"} \cup {rows[i].Category : i \in 1..Len(rows)}

RegionOptions(rows) == {"All"} \cup {rows[i].Region : i \in 1..Len(rows)}

\* main() with the widgets returning dr, cat and reg: every value the run
\* leaves behind
main(state, dr, cat, reg) ==
    LET g == generate_sample_data(state)
        filtered == main_filter(g.df, AllColumns, dr, cat, reg)
        scored == calculate_kpis(filtered.rows)
        board == get_leaderboard(scored, LeaderboardN)
    IN  [rng |-> g.rng, df |-> g.df, filtered_df |-> filtered,
         kpi_df |-> scored, kpi_vals |-> summary_kpi_vals(scored),
         top |-> board.top, bottom |-> board.bottom]

(***************************************************************************)
(* Spec: a dashboard session. Streamlit runs main once, and again on every *)
(* change of a sidebar widget; the widgets keep their values between runs  *)
(***************************************************************************)
\* states of numpy's generator before the first run
InitialRng == {[key |-> 0, ctr |-> 0], [key |-> 1, ctr |-> 0]}

Init ==
    \E r0 \in InitialRng :
      \E dr \in {DateRange(MinDate(generate_sample_data(r0).df),
                           MaxDate(generate_sample_data(r0).df))} :
        \E run \in {main(r0, dr, "All", "All")} :
            /\ pc = "rendered"
            /\ rng = run.rng
            /\ df = run.df
            /\ df0 = run.df
            /\ columns = AllColumns
            /\ date_range = dr
            /\ category = "All"
            /\ region = "All"
            /\ filtered_df = run.filtered_df
            /\ kpi_df = run.kpi_df
            /\ kpi_vals = run.kpi_vals
            /\ top = run.top
            /\ bottom = run.bottom
            /\ board_n = LeaderboardN
            /\ mapping = <<>>
            /\ df2 = <<>>

Rerun(dr, cat, reg) ==
    \E run \in {main(rng, dr, cat, reg)} :
        /\ pc' = "rendered"
        /\ rng' = run.rng
        /\ df' = run.df
        /\ date_range' = dr
        /\ category' = cat
        /\ region' = reg
        /\ filtered_df' = run.filtered_df
        /\ kpi_df' = run.kpi_df
        /\ kpi_vals' = run.kpi_vals
        /\ top' = run.top
        /\ bottom' = run.bottom
        /\ UNCHANGED <<df0, columns, board_n, mapping, df2>>

ChangeDateRange ==
    /\ pc = "rendered"
    /\ \E dr \in DateOptions(generate_sample_data(rng).df) :
          dr # date_range /\ Rerun(dr, category, region)

ChangeCategory ==
    /\ pc = "rendered"
    /\ \E cat \in CategoryOptions(generate_sample_data(rng).df) :
          cat # category /\ Rerun(date_range, cat, region)

ChangeRegion ==
    /\ pc = "rendered"
    /\ \E reg \in RegionOptions(generate_sample_data(rng).df) :
          reg # region /\ Rerun(date_range, category, reg)

Next == ChangeDateRange \/ ChangeCategory \/ ChangeRegion

Spec == Init /\ [][Next]_vars

(***************************************************************************)
(* Properties of calculate_kpis and get_leaderboard (SpecKpi)              *)
(***************************************************************************)
Scored == pc \in {"scored", "ranked"}

\* the observation invariants the rates rely on
ValidObs(r) ==
    /\ 0 <= r.OnTimeDeliveries /\ r.OnTimeDeliveries <= r.TotalDeliveries
    /\ 0 <= r.Defects /\ r.Defects <= r.TotalUnits
    /\ r.Compliant \in {0, 1}

ValidInput(rows) == \A i \in 1..Len(rows) : ValidObs(rows[i])

VendorsOf(rows) == {rows[i].Vendor : i \in 1..Len(rows)}

InUnit(a) == IsNum(a) /\ 0 <= a.n /\ a.n <= a.d

\* C1: with valid observations, every vendor keeps its row and its
\* OnTimeDeliveryRate, QualityScore and OverallScore are defined numbers
\* (never NaN or inf), also when summed TotalDeliveries, summed TotalUnits
\* or the maximum average lead time is 0.
C1_DegenerateDenominatorsDefined ==
    (Scored /\ df # <<>> /\ ValidInput(df)) =>
        /\ VendorsOf(kpi_df) = VendorsOf(df)
        /\ \A i \in 1..Len(kpi_df) :
              /\ IsNum(kpi_df[i].OnTimeDeliveryRate)
              /\ IsNum(kpi_df[i].QualityScore)
              /\ IsNum(kpi_df[i].OverallScore)

\* C2: top and bottom share no vendor when there are at least 2n vendors,
\* and top and bottom together hold min(2n, vendor count) vendors; stated
\* for tables whose scores are all defined numbers, ties included.
C2_TopBottomDisjoint ==
    (pc = "ranked" /\ \A i \in 1..Len(kpi_df) : IsNum(kpi_df[i].OverallScore)) =>
        LET cnt == Len(kpi_df)
            both == VendorsOf(top) \cup VendorsOf(bottom)
        IN  /\ cnt >= 2 * board_n => VendorsOf(top) \cap VendorsOf(bottom) = {}
            /\ Cardinality(both) = IF 2 * board_n < cnt THEN 2 * board_n ELSE cnt

\* C5: for a non-empty table of valid observations every vendor's
\* OnTimeDeliveryRate, QualityScore and ComplianceRate lies in [0,1].
C5_RatesInUnitInterval ==
    (Scored /\ df # <<>> /\ ValidInput(df)) =>
        \A i \in 1..Len(kpi_df) :
            /\ InUnit(kpi_df[i].OnTimeDeliveryRate)
            /\ InUnit(kpi_df[i].QualityScore)
            /\ InUnit(kpi_df[i].ComplianceRate)

Perms(k) == {p \in [1..k -> 1..k] : \A i, j \in 1..k : p[i] = p[j] => i = j}

Permuted(rows, p) == [i \in 1..Len(rows) |-> rows[p[i]]]

\* the sums and means of a summary table, without Category and Region
SumsAndMeans(kpi) ==
    [i \in 1..Len(kpi) |->
        [Vendor |-> kpi[i].Vendor,
         OnTimeDeliveries |-> kpi[i].OnTimeDeliveries,
         TotalDeliveries |-> kpi[i].TotalDeliveries,
         Defects |-> kpi[i].Defects,
         TotalUnits |-> kpi[i].TotalUnits,
         Spend |-> kpi[i].Spend,
         Compliant |-> kpi[i].Compliant,
         LeadTime |-> kpi[i].LeadTime]]

\* C6: one summary row per distinct vendor of the input, and every
\* permutation of the input rows gives the same sums and means per vendor.
C6_AggregationOrderIndependent ==
    Scored =>
        /\ Len(kpi_df) = Cardinality(VendorsOf(df))
        /\ VendorsOf(kpi_df) = VendorsOf(df)
        /\ \A p \in Perms(Len(df)) :
              SumsAndMeans(calculate_kpis(Permuted(df, p))) = SumsAndMeans(kpi_df)

\* a vendor with several different observations, in an order whose
\* permutation changes the summary's first-observed Category
C6_Witness ==
    /\ pc = "scored"
    /\ Len(df) = MaxRows
    /\ \E i, j \in 1..Len(df) :
          /\ i # j
          /\ df[i].Vendor = df[j].Vendor
          /\ df[i].LeadTime # df[j].LeadTime
          /\ df[i].Compliant # df[j].Compliant
    /\ \E p \in Perms(Len(df)) : calculate_kpis(Permuted(df, p)) # kpi_df

IsScenario == Len(df) = 3 /\ Range(df) = ScenarioRows

\* C7: rate = sum(on-time)/sum(total), quality = 1 - sum(defects)/sum(units),
\* overall = 0.3 rate + 0.3 quality + 0.2 compliance + 0.2 (1 - lead/max lead);
\* on the three-vendor scenario the rates are 1, 0.5, 0.8, the quality scores
\* 1, 0.95, 0.98 and the overall scores order V1 > V3 > V2.
C7_ScorerFormulaAndScenario ==
    /\ (Scored /\ IsScenario) =>
          /\ Len(kpi_df) = 3
          /\ kpi_df[1].OnTimeDeliveryRate = Rat(1, 1)
          /\ kpi_df[2].OnTimeDeliveryRate = Rat(1, 2)
          /\ kpi_df[3].OnTimeDeliveryRate = Rat(8, 10)
          /\ kpi_df[1].QualityScore = Rat(1, 1)
          /\ kpi_df[2].QualityScore = Rat(95, 100)
          /\ kpi_df[3].QualityScore = Rat(98, 100)
          /\ FLt(kpi_df[3].OverallScore, kpi_df[1].OverallScore)
          /\ FLt(kpi_df[2].OverallScore, kpi_df[3].OverallScore)
    /\ Scored =>
          \A i \in 1..Len(kpi_df) :
              LET r == kpi_df[i]
                  mx == MaxVal(kpi_df, "AvgLeadTime")
              IN  /\ r.TotalDeliveries > 0 =>
                        r.OnTimeDeliveryRate.n * r.TotalDeliveries
                            = r.OnTimeDeliveries * r.OnTimeDeliveryRate.d
                  /\ r.TotalUnits > 0 =>
                        (r.QualityScore.d - r.QualityScore.n) * r.TotalUnits
                            = r.Defects * r.QualityScore.d
                  /\ (r.TotalDeliveries > 0 /\ r.TotalUnits > 0 /\ mx.n > 0) =>
                        FMul(FMul(r.OverallScore, Rat(10, 1)), mx)
                          = FAdd(FMul(FAdd(FAdd(FMul(r.OnTimeDeliveryRate, Rat(3, 1)),
                                                FMul(r.QualityScore, Rat(3, 1))),
                                           FAdd(FMul(r.ComplianceRate, Rat(2, 1)),
                                                Rat(2, 1))),
                                      mx),
                                 FNeg(FMul(r.AvgLeadTime, Rat(2, 1))))

\* the scenario, scored from an input that lists V3 first
C7_Witness == pc = "scored" /\ IsScenario /\ df[1].Vendor = 3

(***************************************************************************)
(* Properties of the filters (SpecFilter)                                  *)
(***************************************************************************)
Filtered == pc \in {"filter_data", "main_filter"}

\* the three predicates of the filter contract on one record
Passes(r, dr, cat, reg) ==
    /\ to_datetime(dr.v[1]) <= r.Date /\ r.Date <= to_datetime(dr.v[2])
    /\ cat = "All" \/ r.Category = cat
    /\ reg = "All" \/ r.Region = reg

\* C3: given a date range and a table with the Date, Category and Region
\* columns, filter_data and main's inline filter both return exactly the
\* records with start <= Date <= end that match the category and the region
\* (unless 'All'), in table order, and leave the input as it was.
C3_FilterExact ==
    (Filtered /\ ~date_range.is_none /\ columns = AllColumns) =>
        /\ filtered_df.raised = None
        /\ filtered_df.rows =
              SelectSeq(df, LAMBDA r : Passes(r, date_range, category, region))
        /\ df = df0

\* filter_data keeps a record dated at the end bound's midnight and drops
\* another record, under a category selection
C3_Witness ==
    /\ pc = "filter_data"
    /\ ~date_range.is_none
    /\ columns = AllColumns
    /\ category # "All"
    /\ Len(filtered_df.rows) = 1
    /\ Len(df) = 2
    /\ filtered_df.rows[1].Date = to_datetime(date_range.v[2])

\* the filter contract with the predicates of absent inputs skipped
PassesTolerant(r, cols, dr, cat, reg) ==
    /\ (dr.is_none \/ "Date" \notin cols) \/
          (to_datetime(dr.v[1]) <= r.Date /\ r.Date <= to_datetime(dr.v[2]))
    /\ (cat = "All" \/ "Category" \notin cols) \/ r.Category = cat
    /\ (reg = "All" \/ "Region" \notin cols) \/ r.Region = reg

\* C4: neither filter raises when the date range is None or a column is
\* absent; the predicate of the absent input passes every record.
C4_FilterToleratesMissingInputs ==
    Filtered =>
        /\ filtered_df.raised = None
        /\ filtered_df.rows =
              SelectSeq(df, LAMBDA r :
                  PassesTolerant(r, columns, date_range, category, region))

(***************************************************************************)
(* Properties of remap_df (SpecRemap)                                      *)
(***************************************************************************)
\* C9: the remapped table's columns are exactly the fields bound to a source
\* column, one column per field, each holding the values of its source
\* column, and the input table is unchanged; two fields may be bound to the
\* same source column.
C9_RemapKeepsMappedFields ==
    (pc = "remapped" /\ df # <<>>) =>
        LET bound == {i \in 1..Len(mapping) : mapping[i].col # None}
        IN  /\ df2.raised = None
            /\ Len(df2.cols) = Cardinality(bound)
            /\ {df2.cols[j].name : j \in 1..Len(df2.cols)}
                  = {mapping[i].field : i \in bound}
            /\ \A i \in bound :
                  \E j \in 1..Len(df2.cols) :
                      /\ df2.cols[j].name = mapping[i].field
                      /\ df2.cols[j].values = Column(df, mapping[i].col)
            /\ df = df0

(***************************************************************************)
(* Properties of the session (Spec)                                        *)
(***************************************************************************)
AllZero(vals) ==
    /\ vals.OnTimeDeliveryRate = Zero
    /\ vals.QualityScore = Zero
    /\ vals.TotalSpend = Zero
    /\ vals.ComplianceRate = Zero
    /\ vals.AvgLeadTime = Zero

\* C8: when the filter leaves no record, the run ends without an exception,
\* the summary and score table is empty, and the five summary KPIs are 0.
C8_EmptySetIsTerminalCase ==
    (pc = "rendered" /\ filtered_df.rows = <<>>) =>
        /\ filtered_df.raised = None
        /\ kpi_df = <<>>
        /\ top = <<>> /\ bottom = <<>>
        /\ AllZero(kpi_vals)

\* a selection that no observation of the dataset passes
C8_Witness ==
    /\ pc = "rendered"
    /\ df # <<>>
    /\ filtered_df.rows = <<>>
    /\ kpi_df = <<>>

\* C10: after any sequence of selection changes the dataset is the one first
\* generated, and the vendor table shown is calculate_kpis of the dataset's
\* records that pass the current selection.
C10_DerivedFromCurrentSelection ==
    pc = "rendered" =>
        /\ df = df0
        /\ df = generate_sample_data(rng).df
        /\ kpi_df = calculate_kpis(
              SelectSeq(df0, LAMBDA r : Passes(r, date_range, category, region)))
        /\ kpi_vals = summary_kpi_vals(kpi_df)

\* a narrowed date range and a category selected, one after the other,
\* leaving some but not all vendors
C10_Witness ==
    /\ pc = "rendered"
    /\ date_range # DateRange(MinDate(df0), MaxDate(df0))
    /\ category # "All"
    /\ kpi_df # <<>>
    /\ Len(kpi_df) < Cardinality(VendorsOf(df0))

====
